---- MODULE Spec2Model ----
(***************************************************************************)
(* A model of the HUD renderer (src/ui.py, class UI) and of the weapon     *)
(* sprite positioner (src/weapon.py, class Weapon).                        *)
(*                                                                         *)
(* The drawing surface is modelled by the sequence of primitives the last  *)
(* call drew on it.  pygame.Rect objects are mutable and passed by         *)
(* reference, so the rectangles the UI owns live in a heap (rects) that    *)
(* show_bar reads and copies.  Python floats are IEEE-754 doubles: the     *)
(* ratio and the pixel width of show_bar are computed bit by bit, with     *)
(* round-to-nearest-even, and truncated when stored in the integer Rect.   *)
(***************************************************************************)
EXTENDS Integers, Sequences, FiniteSets

VARIABLES settings, rects, weapon_graphics, magic_graphics, surface_size,
          font, player, surface, fault, called, weapon_png, weapon,
          sprite_groups, groups

vars == <<settings, rects, weapon_graphics, magic_graphics, surface_size,
          font, player, surface, fault, called, weapon_png, weapon,
          sprite_groups, groups>>

----------------------------------------------------------------------------
(* Bounds of the model *)

\* largest health / energy / maximum drawn for the bar computations
MaxAmount == 201
\* largest statistic drawn for whole frames
MaxStat == 1
\* number of weapon icons loaded from weapon_data
NWeapons == 2
\* number of magic icons loaded from magic_data
NMagics == 1
\* largest experience drawn, in tenths of a point
MaxExp == 1005

\* widths of the bars' background rectangles (HEALTH_BAR_WIDTH, ENERGY_BAR_WIDTH)
BarWidths == {140, 200}

----------------------------------------------------------------------------
(* Python floats are IEEE-754 doubles.  A non-negative double is held as   *)
(* its 53-bit significand in three limbs (hi: 17 bits, mid and lo: 18 bits *)
(* each) and the exponent e of its last bit:                               *)
(*     value = (hi * 2^36 + mid * 2^18 + lo) * 2^e,   2^16 <= hi < 2^17.   *)
(* Zero has every limb 0.                                                  *)

RECURSIVE Pow2(_)
Pow2(n) == IF n = 0 THEN 1 ELSE 2 * Pow2(n - 1)

\* the base of the two low limbs, and the bounds of the high limb
LimbBase == Pow2(18)
HiMin    == Pow2(16)
HiMax    == Pow2(17)

Float(hi, mid, lo, e) == [hi |-> hi, mid |-> mid, lo |-> lo, e |-> e]

FloatZero == Float(0, 0, 0, 0)

\* the next double above f
FloatSucc(f) ==
    IF f.lo + 1 < LimbBase THEN [f EXCEPT !.lo = @ + 1]
    ELSE IF f.mid + 1 < LimbBase THEN [f EXCEPT !.lo = 0, !.mid = @ + 1]
    ELSE IF f.hi + 1 < HiMax THEN [f EXCEPT !.lo = 0, !.mid = 0, !.hi = @ + 1]
    ELSE Float(HiMin, 0, 0, f.e + 1)

\* round to nearest, ties to even: f holds the first 53 bits of the exact
\* value, half is the bit after them and sticky tells whether anything
\* non-zero follows that bit
RoundNearestEven(f, half, sticky) ==
    IF half /\ (sticky \/ f.lo % 2 = 1) THEN FloatSucc(f) ELSE f

RECURSIVE Normalize(_, _, _)
\* the k with 2^k * d <= n < 2^(k+1) * d, for n > 0 and d > 0
Normalize(n, d, k) ==
    IF n < d THEN Normalize(2 * n, d, k - 1)
    ELSE IF n >= 2 * d THEN Normalize(n, 2 * d, k + 1)
    ELSE k

\* n / d of two non-negative integers (d > 0): the quotient correctly
\* rounded, by long division a limb at a time
FloatDiv(n, d) ==
    IF n = 0 THEN FloatZero
    ELSE LET k   == Normalize(n, d, 0)
             nn  == IF k < 0 THEN n * Pow2(-k) ELSE n
             dd  == IF k > 0 THEN d * Pow2(k) ELSE d
             hi  == (nn * HiMin) \div dd
             r1  == (nn * HiMin) % dd
             mid == (r1 * LimbBase) \div dd
             r2  == (r1 * LimbBase) % dd
             lo  == (r2 * LimbBase) \div dd
             r3  == (r2 * LimbBase) % dd
         IN  RoundNearestEven(Float(hi, mid, lo, k - 52),
                              2 * r3 >= dd, 2 * r3 # dd)

RECURSIVE Excess(_)
\* how many bits c has beyond the 17 of a high limb
Excess(c) == IF c < HiMax THEN 0 ELSE 1 + Excess(c \div 2)

\* w * f for an integer w >= 0 (exact as a double): the exact product,
\* rounded once
FloatMulInt(f, w) ==
    IF w = 0 \/ f.hi = 0 THEN FloatZero
    ELSE LET c0 == f.lo * w
             l0 == c0 % LimbBase
             c1 == f.mid * w + c0 \div LimbBase
             l1 == c1 % LimbBase
             c2 == f.hi * w + c1 \div LimbBase
             d  == Excess(c2)
             p  == Pow2(d)
             q  == LimbBase \div p
             kept == Float(c2 \div p,
                           l1 \div p + (c2 % p) * q,
                           l0 \div p + (l1 % p) * q,
                           f.e + d)
             dropped == l0 % p
         IN  IF d = 0 THEN kept
             ELSE RoundNearestEven(kept, 2 * dropped >= p, 2 * dropped # p)

\* the double truncated toward zero, as a Rect does when it is given a float
FloatTrunc(f) ==
    IF f.hi = 0 \/ -f.e >= 53 THEN 0
    ELSE IF -f.e >= 36 THEN f.hi \div Pow2(-f.e - 36)
    ELSE IF -f.e >= 18
         THEN f.hi * Pow2(36 + f.e) + f.mid \div Pow2(-f.e - 18)
    ELSE IF -f.e >= 0
         THEN f.hi * Pow2(36 + f.e) + f.mid * Pow2(18 + f.e) + f.lo \div Pow2(-f.e)
    ELSE (f.hi * Pow2(36) + f.mid * Pow2(18) + f.lo) * Pow2(f.e)

----------------------------------------------------------------------------
(* pygame.Rect: integer x, y, w, h, and its named points *)

Rect(x, y, w, h) == [x |-> x, y |-> y, w |-> w, h |-> h]

NoRect == Rect(0, 0, 0, 0)

Center(r)      == <<r.x + r.w \div 2, r.y + r.h \div 2>>
MidLeft(r)     == <<r.x, r.y + r.h \div 2>>
MidRight(r)    == <<r.x + r.w, r.y + r.h \div 2>>
MidTop(r)      == <<r.x + r.w \div 2, r.y>>
MidBottom(r)   == <<r.x + r.w \div 2, r.y + r.h>>

\* Surface.get_rect(<point> = p): the surface's rectangle moved so that the
\* named point is at p
GetRectCenter(img, p)      == Rect(p[1] - img.w \div 2, p[2] - img.h \div 2, img.w, img.h)
GetRectMidLeft(img, p)     == Rect(p[1], p[2] - img.h \div 2, img.w, img.h)
GetRectMidRight(img, p)    == Rect(p[1] - img.w, p[2] - img.h \div 2, img.w, img.h)
GetRectMidTop(img, p)      == Rect(p[1] - img.w \div 2, p[2], img.w, img.h)
GetRectMidBottom(img, p)   == Rect(p[1] - img.w \div 2, p[2] - img.h, img.w, img.h)
GetRectTopLeft(img, p)     == Rect(p[1], p[2], img.w, img.h)
GetRectBottomRight(img, p) == Rect(p[1] - img.w, p[2] - img.h, img.w, img.h)

\* Rect.inflate(dx, dy): grown around its centre
Inflate(r, dx, dy) == Rect(r.x - dx \div 2, r.y - dy \div 2, r.w + dx, r.h + dy)

\* point + pygame.math.Vector2(dx, dy)
Offset(p, dx, dy) == <<p[1] + dx, p[2] + dy>>

----------------------------------------------------------------------------
(* Images and the primitives drawn on the display surface *)

Image(kind, id, text, w, h) == [kind |-> kind, id |-> id, text |-> text, w |-> w, h |-> h]

NoImage == Image("none", 0, << >>, 0, 0)

\* pygame.draw.rect(display_surface, color, rect, border)
DrawRect(by, color, rect, border) ==
    [by |-> by, op |-> "rect", color |-> color, img |-> NoImage,
     rect |-> rect, border |-> border]

\* display_surface.blit(img, rect)
Blit(by, img, rect) ==
    [by |-> by, op |-> "blit", color |-> "", img |-> img, rect |-> rect,
     border |-> 0]

\* the rectangles the UI object owns
OwnedRects == {"health_bar_rect", "enery_bar_rect"}

\* RectCopy without the copy: the same object under a second name
RectAlias(heap, ref) == [heap |-> heap, ref |-> ref]

\* bg_rect.copy(): a new Rect object with the same fields
RectCopy(heap, ref) ==
    [heap |-> [r \in DOMAIN heap \cup {"current_rect"} |->
                  IF r = "current_rect" THEN heap[ref] ELSE heap[r]],
     ref  |-> "current_rect"]

\* the objects that outlive the call
DropLocals(heap) == [r \in OwnedRects |-> heap[r]]

\* the state a method works on: the Rect heap, what was drawn, the exception
\* raised ("none" while running normally)
Machine(heap, drawn, exc) == [rects |-> heap, surface |-> drawn, fault |-> exc]

----------------------------------------------------------------------------
(* class UI *)

\* BarRatio with the ratio clamped to 1
BarRatioClamped(current_amount, max_amount) ==
    IF max_amount = 0
    THEN [fault |-> "ZeroDivisionError", value |-> FloatZero]
    ELSE IF current_amount > max_amount
    THEN [fault |-> "none", value |-> FloatDiv(max_amount, max_amount)]
    ELSE [fault |-> "none", value |-> FloatDiv(current_amount, max_amount)]

\* BarRatio with an empty bar in place of the division by zero
BarRatioGuarded(current_amount, max_amount) ==
    IF max_amount = 0
    THEN [fault |-> "none", value |-> FloatZero]
    ELSE [fault |-> "none", value |-> FloatDiv(current_amount, max_amount)]

\* ratio = current_amount / max_amount: Python raises ZeroDivisionError when
\* the divisor is 0
BarRatio(current_amount, max_amount) ==
    IF max_amount = 0
    THEN [fault |-> "ZeroDivisionError", value |-> FloatZero]
    ELSE [fault |-> "none", value |-> FloatDiv(current_amount, max_amount)]

\* FillWidth rounding to the nearest pixel instead of dropping the fraction
FillWidthRounded(width, ratio) ==
    LET twice == FloatMulInt(ratio, 2 * width)
    IN  (FloatTrunc(twice) + 1) \div 2

\* FillWidth with the fill kept inside the 3-pixel border
FillWidthInset(width, ratio) == FloatTrunc(FloatMulInt(ratio, width - 6))

\* current_width = bg_rect.width * ratio, as current_rect.width stores it:
\* a Rect holds integers and drops the fraction of a float
FillWidth(width, ratio) == FloatTrunc(FloatMulInt(ratio, width))

\* UI.show_bar(current_amount, max_amount, bg_rect, color); bg_rect is a
\* reference into the heap
ShowBar(m, current_amount, max_amount, bg_rect, color) ==
    LET background == DrawRect("show_bar", "UI_BACKGROUND_COLOR",
                               m.rects[bg_rect], 0)
        drawn        == Append(m.surface, background)
        ratio        == BarRatio(current_amount, max_amount)
        copy         == RectCopy(m.rects, bg_rect)
        current_rect == copy.ref
        heap         == [copy.heap EXCEPT ![current_rect].w =
                            FillWidth(m.rects[bg_rect].w, ratio.value)]
        fill   == DrawRect("show_bar", color, heap[current_rect], 0)
        border == DrawRect("show_bar", "UI_BORDER_COLOR", heap[bg_rect], 3)
    IN  IF ratio.fault # "none"
        THEN Machine(m.rects, drawn, ratio.fault)
        ELSE Machine(DropLocals(heap), drawn \o <<fill, border>>, "none")

\* str(int(exp)): exp is held in tenths of a point, int() drops the
\* fraction, str() writes the decimal digits
IntOf(exp) == exp \div 10

RECURSIVE Str(_)
Str(n) == IF n < 10 THEN <<n>> ELSE Append(Str(n \div 10), n % 10)

\* font.render(text): a surface as wide as its glyphs
Render(text) == Image("text", 0, text, Len(text) * font.glyph_w, font.glyph_h)

\* UI.show_exp(exp)
ShowExp(m, exp) ==
    LET text_surf == Render(Str(IntOf(exp)))
        x         == surface_size[1] - 20
        y         == surface_size[2] - 20
        text_rect == GetRectBottomRight(text_surf, <<x, y>>)
        box       == Inflate(text_rect, 10, 10)
    IN  Machine(m.rects,
                m.surface \o
                  << DrawRect("show_exp", "UI_BACKGROUND_COLOR", box, 0),
                     Blit("show_exp", text_surf, text_rect),
                     DrawRect("show_exp", "UI_BACKGROUND_COLOR", box, 3) >>,
                "none")

\* UI.selection_box(x, y, is_switching): the machine after drawing, and the
\* rectangle returned
SelectionBox(m, x, y, is_switching) ==
    LET bg_rect == Rect(x, y, settings.ITEM_BOX_SIZE, settings.ITEM_BOX_SIZE)
        border  == IF is_switching THEN "UI_BORDER_COLOR_ACTIVE"
                   ELSE "UI_BORDER_COLOR"
    IN  [m    |-> Machine(m.rects,
                          m.surface \o
                            << DrawRect("selection_box", "UI_BACKGROUND_COLOR", bg_rect, 0),
                               DrawRect("selection_box", border, bg_rect, 3) >>,
                          "none"),
         rect |-> bg_rect]

\* list[index] of Python: a negative index counts from the end of the list
IndexValid(list, index) == -Len(list) <= index /\ index < Len(list)

ListGet(list, index) ==
    IF index >= 0 THEN list[index + 1] ELSE list[Len(list) + index + 1]

\* UI.weapon_overlay(weapon_index, is_switching)
WeaponOverlay(m, weapon_index, is_switching) ==
    LET box == SelectionBox(m, 10, 630, is_switching)
    IN  IF ~IndexValid(weapon_graphics, weapon_index)
        THEN [box.m EXCEPT !.fault = "IndexError"]
        ELSE LET weapon_img  == ListGet(weapon_graphics, weapon_index)
                 weapon_rect == GetRectCenter(weapon_img, Center(box.rect))
             IN  [box.m EXCEPT !.surface =
                     Append(@, Blit("weapon_overlay", weapon_img, weapon_rect))]

\* UI.magic_overlay(magic_index, is_switching)
MagicOverlay(m, magic_index, is_switching) ==
    LET box == SelectionBox(m, 80, 620, is_switching)
    IN  IF ~IndexValid(magic_graphics, magic_index)
        THEN [box.m EXCEPT !.fault = "IndexError"]
        ELSE LET magic_img  == ListGet(magic_graphics, magic_index)
                 magic_rect == GetRectCenter(magic_img, Center(box.rect))
             IN  [box.m EXCEPT !.surface =
                     Append(@, Blit("magic_overlay", magic_img, magic_rect))]

\* the statements of UI.display after the first: each runs unless an
\* earlier one raised
DisplayEnergy(m, p) ==
    IF m.fault # "none" THEN m
    ELSE ShowBar(m, p.energy, p.stats.energy, "enery_bar_rect", "ENERGY_COLOR")

DisplayWeapon(m, p) ==
    IF m.fault # "none" THEN m
    ELSE WeaponOverlay(m, p.weapon_index, ~p.able_to_switch_weapon)

DisplayMagic(m, p) ==
    IF m.fault # "none" THEN m
    ELSE MagicOverlay(m, p.magic_index, ~p.able_to_switch_magic)

DisplayExp(m, p) ==
    IF m.fault # "none" THEN m ELSE ShowExp(m, p.exp)

DisplayHealth(m, p) ==
    ShowBar(m, p.health, p.stats.health, "health_bar_rect", "HEALTH_COLOR")

\* Display with the magic overlay drawn before the weapon overlay
DisplayReordered(m, p) ==
    DisplayExp(DisplayWeapon(DisplayMagic(DisplayEnergy(DisplayHealth(m, p), p), p), p), p)

\* UI.display(player)
Display(m, p) ==
    DisplayExp(DisplayMagic(DisplayWeapon(DisplayEnergy(DisplayHealth(m, p), p), p), p), p)

----------------------------------------------------------------------------
(* class Weapon *)

\* player.status.split('_')[0]: the characters before the first underscore
RECURSIVE SplitFirst(_)
SplitFirst(status) ==
    IF status = << >> \/ Head(status) = "_" THEN << >>
    ELSE <<Head(status)>> \o SplitFirst(Tail(status))

Right == <<"r", "i", "g", "h", "t">>
Left  == <<"l", "e", "f", "t">>
Up    == <<"u", "p">>
Down  == <<"d", "o", "w", "n">>

NoWeapon == [sprite_type |-> "", image |-> NoImage, has_rect |-> FALSE,
             rect |-> NoRect]

\* pygame.image.load(full_path).convert_alpha(): the picture stored for this
\* weapon and direction
LoadWeaponImage(weapon_name, direction) ==
    Image(weapon_name, 0, direction, weapon_png.w, weapon_png.h)

\* WeaponRect with the horizontal anchors exchanged
WeaponRectSwapped(image, direction, player_rect) ==
    IF direction = Right
    THEN [has_rect |-> TRUE,
          rect |-> GetRectMidRight(image, Offset(MidLeft(player_rect), 0, 16))]
    ELSE IF direction = Left
    THEN [has_rect |-> TRUE,
          rect |-> GetRectMidLeft(image, Offset(MidRight(player_rect), 0, 16))]
    ELSE IF direction = Up
    THEN [has_rect |-> TRUE,
          rect |-> GetRectMidBottom(image, Offset(MidTop(player_rect), -10, 0))]
    ELSE IF direction = Down
    THEN [has_rect |-> TRUE,
          rect |-> GetRectMidTop(image, Offset(MidBottom(player_rect), -10, 0))]
    ELSE [has_rect |-> FALSE, rect |-> NoRect]

\* WeaponRect with the centred rectangle assigned in the last branch
WeaponRectCentered(image, direction, player_rect) ==
    IF direction = Right
    THEN [has_rect |-> TRUE,
          rect |-> GetRectMidLeft(image, Offset(MidRight(player_rect), 0, 16))]
    ELSE IF direction = Left
    THEN [has_rect |-> TRUE,
          rect |-> GetRectMidRight(image, Offset(MidLeft(player_rect), 0, 16))]
    ELSE IF direction = Up
    THEN [has_rect |-> TRUE,
          rect |-> GetRectMidBottom(image, Offset(MidTop(player_rect), -10, 0))]
    ELSE IF direction = Down
    THEN [has_rect |-> TRUE,
          rect |-> GetRectMidTop(image, Offset(MidBottom(player_rect), -10, 0))]
    ELSE [has_rect |-> TRUE, rect |-> GetRectCenter(image, Center(player_rect))]

\* the rectangle Weapon.__init__ assigns to self.rect, has_rect FALSE when no
\* branch assigns one
WeaponRect(image, direction, player_rect) ==
    IF direction = Right
    THEN [has_rect |-> TRUE,
          rect |-> GetRectMidLeft(image, Offset(MidRight(player_rect), 0, 16))]
    ELSE IF direction = Left
    THEN [has_rect |-> TRUE,
          rect |-> GetRectMidRight(image, Offset(MidLeft(player_rect), 0, 16))]
    ELSE IF direction = Up
    THEN [has_rect |-> TRUE,
          rect |-> GetRectMidBottom(image, Offset(MidTop(player_rect), -10, 0))]
    ELSE IF direction = Down
    THEN [has_rect |-> TRUE,
          rect |-> GetRectMidTop(image, Offset(MidBottom(player_rect), -10, 0))]
    ELSE [has_rect |-> FALSE, rect |-> NoRect]

\* Weapon.__init__(player, groups): the sprite's attributes and the groups
\* that hold it
NewWeapon(p, gs) ==
    LET direction == SplitFirst(p.status)
        image     == LoadWeaponImage(p.weapon, direction)
        placed    == WeaponRect(image, direction, p.rect)
    IN  [weapon |-> [sprite_type |-> "weapon", image |-> image,
                     has_rect |-> placed.has_rect, rect |-> placed.rect],
         member_of |-> sprite_groups \cup gs]

----------------------------------------------------------------------------
(* The values the environment supplies *)

\* the names imported from settings; the module is not part of the sources
\* read here, so the bar widths are drawn from BarWidths and the other two
\* sizes are sample values no property depends on
Settings(health_w, energy_w) ==
    [HEALTH_BAR_WIDTH |-> health_w, ENERGY_BAR_WIDTH |-> energy_w,
     BAR_HEIGHT |-> 20, ITEM_BOX_SIZE |-> 80]

Statuses ==
    { Right, Left, Up, Down,
      Right \o <<"_">> \o <<"i", "d", "l", "e">>,
      Left \o <<"_">> \o <<"a", "t", "t", "a", "c", "k">>,
      Up \o <<"_">> \o <<"i", "d", "l", "e">>,
      Down \o <<"_">> \o <<"i", "d", "l", "e">> \o <<"_">> \o Up,
      <<"i", "d", "l", "e">>,
      <<"_">> \o Right,
      Up \o Down \o <<"_">> \o <<"i", "d", "l", "e">>,
      << >> }

GroupNames == {"visible_sprites", "attack_sprites"}

DefaultPlayer ==
    [health |-> 1, energy |-> 1, stats |-> [health |-> 1, energy |-> 1],
     weapon_index |-> 0, magic_index |-> 0,
     able_to_switch_weapon |-> TRUE, able_to_switch_magic |-> TRUE,
     exp |-> 0, status |-> Down, weapon |-> "sword",
     rect |-> Rect(0, 0, 64, 64)]

\* UI.__init__: the bars' rectangles and the icon lists
UIInit ==
    /\ rects = [r \in OwnedRects |->
                  IF r = "health_bar_rect"
                  THEN Rect(10, 10, settings.HEALTH_BAR_WIDTH, settings.BAR_HEIGHT)
                  ELSE Rect(10, 34, settings.ENERGY_BAR_WIDTH, settings.BAR_HEIGHT)]
    /\ weapon_graphics = [i \in 1..NWeapons |-> Image("weapon", i, << >>, 60 + i, 64 - i)]
    /\ magic_graphics = [i \in 1..NMagics |-> Image("magic", i, << >>, 50 + i, 54 - i)]
    /\ surface = << >>
    /\ fault = "none"
    /\ called = "none"

NoSprite ==
    /\ weapon = NoWeapon
    /\ sprite_groups = {}
    /\ groups = {}
    /\ weapon_png = [w |-> 0, h |-> 0]

----------------------------------------------------------------------------
(* Spec: whole frames.  The player snapshot of the frame is any of the     *)
(* bounded snapshots; display and the two overlays are called on it.       *)

\* the snapshot of a frame: every field display reads
FramePlayer(h, e, sh, se, wi, mi, aw, am, x) ==
    [DefaultPlayer EXCEPT !.health = h, !.energy = e,
                          !.stats = [health |-> sh, energy |-> se],
                          !.weapon_index = wi, !.magic_index = mi,
                          !.able_to_switch_weapon = aw,
                          !.able_to_switch_magic = am, !.exp = x]

Init ==
    /\ settings = Settings(200, 140)
    /\ surface_size = <<1280, 720>>
    /\ font = [glyph_w |-> 10, glyph_h |-> 18]
    /\ \E h \in 0..(MaxStat + 1), e \in 0..(MaxStat + 1),
          sh \in 0..MaxStat, se \in 0..MaxStat,
          wi \in (-(NWeapons + 1))..NWeapons,
          mi \in (-(NMagics + 1))..NMagics,
          aw \in BOOLEAN, am \in BOOLEAN, x \in {7, MaxExp} :
            player = FramePlayer(h, e, sh, se, wi, mi, aw, am, x)
    /\ UIInit
    /\ NoSprite

Start == Machine(rects, << >>, "none")

Finish(m, name) ==
    /\ rects' = m.rects
    /\ surface' = m.surface
    /\ fault' = m.fault
    /\ called' = name
    /\ UNCHANGED <<settings, weapon_graphics, magic_graphics, surface_size,
                   font, player, weapon_png, weapon, sprite_groups, groups>>

DisplayCall ==
    /\ fault = "none"
    /\ Finish(Display(Start, player), "display")

WeaponOverlayCall ==
    /\ fault = "none"
    /\ Finish(WeaponOverlay(Start, player.weapon_index,
                            ~player.able_to_switch_weapon), "weapon_overlay")

MagicOverlayCall ==
    /\ fault = "none"
    /\ Finish(MagicOverlay(Start, player.magic_index,
                           ~player.able_to_switch_magic), "magic_overlay")

Next == DisplayCall \/ WeaponOverlayCall \/ MagicOverlayCall

Spec == Init /\ [][Next]_vars

----------------------------------------------------------------------------
(* SpecBar: show_bar as display calls it for the health bar, over every    *)
(* amount, maximum and bar width of the bounds.                            *)

InitBar ==
    /\ settings \in { Settings(w, 140) : w \in BarWidths }
    /\ surface_size = <<1280, 720>>
    /\ font = [glyph_w |-> 10, glyph_h |-> 18]
    /\ player \in { [DefaultPlayer EXCEPT !.health = h, !.stats.health = sh] :
                      h \in 0..MaxAmount, sh \in 0..MaxAmount }
    /\ UIInit
    /\ NoSprite

ShowBarCall ==
    /\ called = "none"
    /\ Finish(ShowBar(Start, player.health, player.stats.health,
                      "health_bar_rect", "HEALTH_COLOR"), "show_bar")

NextBar == ShowBarCall

SpecBar == InitBar /\ [][NextBar]_vars

----------------------------------------------------------------------------
(* SpecExp: show_exp over every experience, surface size and font of the   *)
(* bounds.                                                                 *)

SurfaceSizes == { <<1280, 720>>, <<800, 600>>, <<45, 33>> }

Fonts == { [glyph_w |-> 10, glyph_h |-> 18], [glyph_w |-> 7, glyph_h |-> 11] }

InitExp ==
    /\ settings = Settings(200, 140)
    /\ surface_size \in SurfaceSizes
    /\ font \in Fonts
    /\ player \in { [DefaultPlayer EXCEPT !.exp = x] : x \in 0..MaxExp }
    /\ UIInit
    /\ NoSprite

ShowExpCall ==
    /\ called = "none"
    /\ Finish(ShowExp(Start, player.exp), "show_exp")

NextExp == ShowExpCall

SpecExp == InitExp /\ [][NextExp]_vars

----------------------------------------------------------------------------
(* SpecWeapon: one Weapon constructed for every status, player rectangle,  *)
(* picture size and group list of the bounds.                              *)

PlayerRects == { Rect(x, y, w, h) : x \in {0, 100}, y \in {0, 37},
                                    w \in {64, 63}, h \in {64, 65} }

Pictures == { [w |-> w, h |-> h] : w \in {10, 27}, h \in {10, 31} }

InitWeapon ==
    /\ settings = Settings(200, 140)
    /\ surface_size = <<1280, 720>>
    /\ font = [glyph_w |-> 10, glyph_h |-> 18]
    /\ player \in { [DefaultPlayer EXCEPT !.status = s, !.rect = r] :
                      s \in Statuses, r \in PlayerRects }
    /\ UIInit
    /\ weapon = NoWeapon
    /\ sprite_groups = {}
    /\ groups \in (SUBSET GroupNames) \ {{}}
    /\ weapon_png \in Pictures

CreateWeapon ==
    /\ called = "none"
    /\ LET new == NewWeapon(player, groups)
       IN  /\ weapon' = new.weapon
           /\ sprite_groups' = new.member_of
    /\ called' = "Weapon"
    /\ UNCHANGED <<settings, rects, weapon_graphics, magic_graphics,
                   surface_size, font, player, surface, fault, weapon_png,
                   groups>>

NextWeapon == CreateWeapon

SpecWeapon == InitWeapon /\ [][NextWeapon]_vars

----------------------------------------------------------------------------
(* Properties of show_bar, checked under SpecBar *)

\* show_bar returned: surface holds the background, the fill and the border
BarDrawn == called = "show_bar" /\ fault = "none"

BarCurrent == player.health
BarMax     == player.stats.health
BarWidth   == rects["health_bar_rect"].w
BarFill    == surface[2].rect.w

\* C1 as stated: for 0 <= current <= max and max > 0 the fill is exactly
\* barWidth * current / max pixels wide, with no rounding or truncation
C1_Exact ==
    (BarDrawn /\ BarMax > 0 /\ BarCurrent <= BarMax)
        => BarFill * BarMax = BarWidth * BarCurrent

\* C1 amended: for whole current and max with 0 <= current <= max and
\* max > 0 the fill width is barWidth * (current / max) computed in doubles
\* and truncated to a whole pixel: the integer part of barWidth*current/max
\* when that quotient is not whole, and the quotient or one pixel less when
\* it is whole
C1_Truncated ==
    (BarDrawn /\ BarMax > 0 /\ BarCurrent <= BarMax)
        => IF (BarWidth * BarCurrent) % BarMax # 0
           THEN BarFill = (BarWidth * BarCurrent) \div BarMax
           ELSE BarFill \in { (BarWidth * BarCurrent) \div BarMax,
                              (BarWidth * BarCurrent) \div BarMax - 1 }

\* a whole quotient drawn one pixel short: 29 of 100 on the 200-pixel bar
C1_Witness ==
    /\ BarDrawn /\ BarMax > 0 /\ BarCurrent <= BarMax
    /\ (BarWidth * BarCurrent) % BarMax = 0
    /\ BarFill = (BarWidth * BarCurrent) \div BarMax - 1

\* C5: for every max > 0 a full statistic fills the whole background width
\* and an empty one draws a fill of width 0
C5_Endpoints ==
    (BarDrawn /\ BarMax > 0)
        => /\ BarCurrent = BarMax => BarFill = surface[1].rect.w
           /\ BarCurrent = BarMax => BarFill = surface[3].rect.w
           /\ BarCurrent = 0 => BarFill = 0

\* a full bar whose ratio 1.0 comes from a maximum that is no power of two
C5_Witness ==
    /\ BarDrawn /\ BarMax = 3 /\ BarCurrent = BarMax
    /\ BarFill = BarWidth /\ BarWidth = 200

\* C10 as stated: for max > 0 and current > max the fill is wider than the
\* background whenever barWidth * current / max exceeds barWidth by at
\* least one pixel
C10_AtLeastOnePixel ==
    (BarDrawn /\ BarMax > 0 /\ BarCurrent > BarMax
       /\ BarWidth * BarCurrent >= (BarWidth + 1) * BarMax)
        => BarFill > surface[1].rect.w

\* C10 amended: for whole current and max with max > 0 and current > max
\* the fill is wider than the background whenever barWidth * current / max
\* exceeds barWidth by more than one pixel
C10_MoreThanOnePixel ==
    (BarDrawn /\ BarMax > 0 /\ BarCurrent > BarMax
       /\ BarWidth * BarCurrent > (BarWidth + 1) * BarMax)
        => BarFill > surface[1].rect.w

\* an overfull statistic drawn past the border
C10_Witness ==
    /\ BarDrawn /\ BarMax > 0 /\ BarCurrent > BarMax
    /\ BarWidth * BarCurrent > (BarWidth + 1) * BarMax
    /\ BarFill > surface[3].rect.w

----------------------------------------------------------------------------
(* Properties of show_exp, checked under SpecExp *)

\* C6: for every exp and every surface size the text is blitted in a
\* rectangle whose bottom-right corner is (surfaceWidth - 20,
\* surfaceHeight - 20), whatever the number of digits
C6_Anchor ==
    called = "show_exp"
        => /\ surface[2].op = "blit"
           /\ surface[2].rect.w = Len(surface[2].img.text) * font.glyph_w
           /\ surface[2].rect.x + surface[2].rect.w = surface_size[1] - 20
           /\ surface[2].rect.y + surface[2].rect.h = surface_size[2] - 20

\* a three-digit text on the smallest surface, its left edge off the screen
C6_Witness ==
    /\ called = "show_exp"
    /\ Len(surface[2].img.text) = 3
    /\ surface_size = <<45, 33>>
    /\ surface[2].rect.x < 0

----------------------------------------------------------------------------
(* Properties of the Weapon constructor, checked under SpecWeapon *)

\* status is the word dir, alone or followed by an underscore
Facing(dir) ==
    /\ Len(player.status) >= Len(dir)
    /\ SubSeq(player.status, 1, Len(dir)) = dir
    /\ Len(player.status) > Len(dir) => player.status[Len(dir) + 1] = "_"

Built == called = "Weapon"

\* C3: for each of the four recognized directions the constructor places
\* the picture by its anchor rule: right, weapon midleft = player midright +
\* (0,16); left, midright = midleft + (0,16); up, midbottom = midtop +
\* (-10,0); down, midtop = midbottom + (-10,0)
C3_Anchors ==
    LET w == weapon.rect
        p == player.rect
    IN  Built =>
          /\ (Facing(Right) \/ Facing(Left) \/ Facing(Up) \/ Facing(Down))
                => /\ weapon.has_rect
                   /\ w.w = weapon_png.w /\ w.h = weapon_png.h
          /\ Facing(Right) => /\ w.x = p.x + p.w
                              /\ w.y + w.h \div 2 = p.y + p.h \div 2 + 16
          /\ Facing(Left)  => /\ w.x + w.w = p.x
                              /\ w.y + w.h \div 2 = p.y + p.h \div 2 + 16
          /\ Facing(Up)    => /\ w.x + w.w \div 2 = p.x + p.w \div 2 - 10
                              /\ w.y + w.h = p.y
          /\ Facing(Down)  => /\ w.x + w.w \div 2 = p.x + p.w \div 2 - 10
                              /\ w.y = p.y + p.h

\* a weapon placed to the left of a player of odd height
C3_Witness ==
    /\ Built /\ Facing(Left) /\ Len(player.status) > Len(Left)
    /\ player.rect.h = 65 /\ weapon_png.h = 31
    /\ weapon.has_rect /\ weapon.rect.x + weapon.rect.w = player.rect.x

----------------------------------------------------------------------------
(* Properties of display and of the overlays, checked under Spec *)

Displayed == called = "display"

\* entries i..i+2 of the surface are one bar: background, fill, border, all
\* on the rectangle bg, the fill in the given color and as wide as current
\* against max allows
IsBar(i, bg, color, current, max) ==
    /\ surface[i] = DrawRect("show_bar", "UI_BACKGROUND_COLOR", bg, 0)
    /\ surface[i + 1].by = "show_bar" /\ surface[i + 1].op = "rect"
    /\ surface[i + 1].color = color /\ surface[i + 1].border = 0
    /\ surface[i + 1].rect.x = bg.x /\ surface[i + 1].rect.y = bg.y
    /\ surface[i + 1].rect.h = bg.h
    /\ surface[i + 1].rect.w * max <= bg.w * current
    /\ bg.w * current <= (surface[i + 1].rect.w + 1) * max
    /\ surface[i + 2] = DrawRect("show_bar", "UI_BORDER_COLOR", bg, 3)

\* entries i..i+2 are one overlay: the box at (x, y), its border coloured
\* by switching, and an icon of the given kind blitted on the box's centre
IsOverlay(i, x, y, switching, by, kind) ==
    LET box == Rect(x, y, settings.ITEM_BOX_SIZE, settings.ITEM_BOX_SIZE)
    IN  /\ surface[i] = DrawRect("selection_box", "UI_BACKGROUND_COLOR", box, 0)
        /\ surface[i + 1] =
             DrawRect("selection_box",
                      IF switching THEN "UI_BORDER_COLOR_ACTIVE"
                      ELSE "UI_BORDER_COLOR", box, 3)
        /\ surface[i + 2].by = by /\ surface[i + 2].op = "blit"
        /\ surface[i + 2].img.kind = kind
        /\ surface[i + 2].rect.x + surface[i + 2].rect.w \div 2 = x + box.w \div 2
        /\ surface[i + 2].rect.y + surface[i + 2].rect.h \div 2 = y + box.h \div 2

\* entries i..i+2 are the experience text between its two boxes
IsExp(i) ==
    /\ surface[i].by = "show_exp" /\ surface[i].op = "rect"
    /\ surface[i + 1].by = "show_exp" /\ surface[i + 1].op = "blit"
    /\ surface[i + 1].img.kind = "text"
    /\ surface[i + 2].by = "show_exp" /\ surface[i + 2].op = "rect"

\* the five steps of a frame, each once and in the order of display
FrameInOrder ==
    /\ Len(surface) = 15
    /\ IsBar(1, rects["health_bar_rect"], "HEALTH_COLOR",
             player.health, player.stats.health)
    /\ IsBar(4, rects["enery_bar_rect"], "ENERGY_COLOR",
             player.energy, player.stats.energy)
    /\ IsOverlay(7, 10, 630, ~player.able_to_switch_weapon,
                 "weapon_overlay", "weapon")
    /\ IsOverlay(10, 80, 620, ~player.able_to_switch_magic,
                 "magic_overlay", "magic")
    /\ IsExp(13)

Blitted(by) == \E i \in 1..Len(surface) : surface[i].by = by /\ surface[i].op = "blit"

\* C4: weapon_overlay and magic_overlay given an index below 0 or not below
\* the number of icons fail with a bounds error and draw no icon
C4_BoundsError ==
    /\ (called = "weapon_overlay"
          /\ (player.weapon_index < 0 \/ player.weapon_index >= Len(weapon_graphics)))
         => (fault = "IndexError" /\ ~Blitted("weapon_overlay"))
    /\ (called = "magic_overlay"
          /\ (player.magic_index < 0 \/ player.magic_index >= Len(magic_graphics)))
         => (fault = "IndexError" /\ ~Blitted("magic_overlay"))

\* C7: a call of display leaves the two bar rectangles, the two icon lists
\* and every field of the player as they were, and the border of each bar is
\* drawn on the unresized background rectangle
C7_ReadOnly ==
    [][ called' = "display"
          => /\ rects' = rects
             /\ weapon_graphics' = weapon_graphics
             /\ magic_graphics' = magic_graphics
             /\ player' = player
             /\ Len(surface') >= 3 => surface'[3].rect = rects["health_bar_rect"]
             /\ Len(surface') >= 6 => surface'[6].rect = rects["enery_bar_rect"]
      ]_vars

\* a frame whose two fills were resized while the rectangles of the UI kept
\* their widths
C7_Witness ==
    /\ Displayed /\ fault = "none"
    /\ surface[2].rect.w < surface[1].rect.w
    /\ surface[5].rect.w > surface[4].rect.w
    /\ rects["health_bar_rect"].w = settings.HEALTH_BAR_WIDTH
    /\ rects["enery_bar_rect"].w = settings.ENERGY_BAR_WIDTH

\* C8: a maximum of 0 raises ZeroDivisionError out of display, after the
\* background of that bar was drawn and before its fill and border, and
\* nothing later in the frame is drawn
C8_DivisionByZero ==
    Displayed =>
      /\ player.stats.health = 0
           => /\ fault = "ZeroDivisionError"
              /\ surface = << DrawRect("show_bar", "UI_BACKGROUND_COLOR",
                                       rects["health_bar_rect"], 0) >>
      /\ (player.stats.health > 0 /\ player.stats.energy = 0)
           => /\ fault = "ZeroDivisionError"
              /\ Len(surface) = 4
              /\ IsBar(1, rects["health_bar_rect"], "HEALTH_COLOR",
                       player.health, player.stats.health)
              /\ surface[4] = DrawRect("show_bar", "UI_BACKGROUND_COLOR",
                                       rects["enery_bar_rect"], 0)

\* the energy maximum is 0: the health bar is complete, the energy bar has
\* its background only
C8_Witness ==
    /\ Displayed /\ fault = "ZeroDivisionError"
    /\ player.stats.health > 0 /\ player.stats.energy = 0
    /\ Len(surface) = 4

====
